---- MODULE Spec2Model ----
(***************************************************************************)
(* r2-file-manager: three HTTP endpoints (list, upload, delete) over an    *)
(* S3-compatible bucket, and the React component R2FileManager that drives *)
(* them.                                                                   *)
(*                                                                         *)
(* Strings are sequences of one-character strings, so that the key built   *)
(* by the upload endpoint and the query string built by the UI are         *)
(* computed character by character, as the code computes them.             *)
(***************************************************************************)
EXTENDS Integers, Sequences, FiniteSets, Bags

VARIABLES
    bucket,       \* the R2 bucket: a function from Key to the stored object
    now,          \* Date.now(), in milliseconds
    last,         \* the last request a direct API client made, and its response
    stored,       \* keys a 200 Upload produced, no Delete request for them since
    removed,      \* keys a 200 Delete was for, no 200 Upload producing them since
    trip,         \* how far the client's last requests are into a round trip
    files,        \* R2FileManager: useState<FileItem[]>([])
    isLoading,    \* R2FileManager: useState(true)
    isUploading,  \* R2FileManager: useState(false)
    isDeleting,   \* R2FileManager: useState(false)
    error,        \* R2FileManager: useState<string | null>(null)
    mounted,      \* whether the mount effect has run
    calls         \* the UI's fetch() calls in flight: a bag of call records

vars == <<bucket, now, last, stored, removed, trip,
          files, isLoading, isUploading, isDeleting, error, mounted, calls>>

apiVars == <<last, stored, removed, trip>>
uiVars == <<files, isLoading, isUploading, isDeleting, error, mounted, calls>>

----------------------------------------------------------------------------
(* Bounds of the model *)

\* the clock starts here, so that the timestamp's digit count changes (9 -> 10)
StartTime == 9
\* the clock stops here
MaxTime == 10
\* the bucket holds at most this many objects
MaxObjects == 2
\* the UI has at most this many fetch() calls in flight
MaxCalls == 2

\* The provider returns at most this many keys for one ListObjectsV2 call
\* (1000 at the provider; the list endpoint makes one call and reads no
\* continuation token).  Scaled down with the bucket.
MaxKeys == 1

\* An optional value (null | T) is a sequence of at most one element.
None == <<>>
Some(x) == <<x>>

----------------------------------------------------------------------------
(* Strings *)

DigitChars == <<"0", "1", "2", "3", "4", "5", "6", "7", "8", "9">>

\* the code unit of a character of the model's alphabet
CharCode(c) ==
    CASE c = " " -> 32 [] c = "#" -> 35 [] c = "%" -> 37 [] c = "&" -> 38
      [] c = "+" -> 43 [] c = "-" -> 45 [] c = "." -> 46 [] c = "/" -> 47
      [] c = "0" -> 48 [] c = "1" -> 49 [] c = "2" -> 50 [] c = "3" -> 51
      [] c = "4" -> 52 [] c = "5" -> 53 [] c = "6" -> 54 [] c = "7" -> 55
      [] c = "8" -> 56 [] c = "9" -> 57 [] c = "=" -> 61 [] c = "?" -> 63
      [] c = "a" -> 97 [] c = "b" -> 98 [] c = "e" -> 101 [] c = "f" -> 102
      [] c = "i" -> 105 [] c = "l" -> 108
      [] OTHER -> 255

RECURSIVE NumToString(_)
\* String(n) of a non-negative integer: its decimal digits
NumToString(n) ==
    IF n < 10 THEN <<DigitChars[n + 1]>>
    ELSE NumToString(n \div 10) \o <<DigitChars[(n % 10) + 1]>>

\* the least index i with s[i] = c, or 0
IndexOf(s, c) ==
    IF \E i \in 1..Len(s) : s[i] = c
    THEN CHOOSE i \in 1..Len(s) : s[i] = c /\ \A j \in 1..(i - 1) : s[j] # c
    ELSE 0

\* s before t in code-unit order (the order the provider lists keys in)
LexLess(s, t) ==
    \E i \in 1..(Len(t)) :
        /\ i <= Len(s) + 1
        /\ \A j \in 1..(i - 1) : s[j] = t[j]
        /\ \/ i = Len(s) + 1
           \/ i <= Len(s) /\ CharCode(s[i]) < CharCode(t[i])

RECURSIVE SortKeys(_)
\* the keys of S in ascending order
SortKeys(S) ==
    IF S = {} THEN <<>>
    ELSE LET m == CHOOSE k \in S : \A j \in S \ {k} : LexLess(k, j)
         IN  <<m>> \o SortKeys(S \ {m})

\* the first n elements of s
Take(s, n) == SubSeq(s, 1, IF Len(s) < n THEN Len(s) ELSE n)

\* s with every c replaced by d
Replace(s, c, d) == [i \in 1..Len(s) |-> IF s[i] = c THEN d ELSE s[i]]

RECURSIVE Split(_, _)
\* s.split(c): the pieces of s between the occurrences of c
Split(s, c) ==
    LET i == IndexOf(s, c)
    IN  IF i = 0 THEN <<s>>
        ELSE <<SubSeq(s, 1, i - 1)>> \o Split(SubSeq(s, i + 1, Len(s)), c)

Alphabet ==
    {" ", "#", "%", "&", "+", "-", ".", "/", "0", "1", "2", "3", "4", "5",
     "6", "7", "8", "9", "=", "?", "a", "b", "e", "f", "i", "l"}

IsHex(c) ==
    c \in {"0", "1", "2", "3", "4", "5", "6", "7", "8", "9",
           "a", "b", "e", "f", "A", "B", "C", "D", "E", "F"}

HexVal(c) ==
    CASE c \in {"a", "A"} -> 10 [] c \in {"b", "B"} -> 11 [] c = "C" -> 12
      [] c = "D" -> 13 [] c \in {"e", "E"} -> 14 [] c \in {"f", "F"} -> 15
      [] OTHER -> CharCode(c) - 48

\* the character of a code unit; a byte outside the alphabet decodes to "~"
CharOf(n) ==
    IF \E c \in Alphabet : CharCode(c) = n
    THEN CHOOSE c \in Alphabet : CharCode(c) = n
    ELSE "~"

HexChars == <<"0", "1", "2", "3", "4", "5", "6", "7", "8", "9", "A", "B", "C", "D", "E", "F">>

\* the characters encodeURIComponent leaves as they are
IsUnreserved(c) == c \in {"-", ".", "0", "1", "2", "3", "4", "5", "6", "7", "8", "9",
                          "a", "b", "e", "f", "i", "l"}

RECURSIVE EncodeURIComponent(_)
\* every other character becomes %XY, XY its code unit in hexadecimal
EncodeURIComponent(s) ==
    IF s = <<>> THEN <<>>
    ELSE (IF IsUnreserved(s[1]) THEN <<s[1]>>
          ELSE <<"%", HexChars[(CharCode(s[1]) \div 16) + 1],
                 HexChars[(CharCode(s[1]) % 16) + 1]>>)
         \o EncodeURIComponent(SubSeq(s, 2, Len(s)))

RECURSIVE PercentDecode(_)
\* a %XY escape becomes the byte XY; a % that starts no escape stays
PercentDecode(s) ==
    IF s = <<>> THEN <<>>
    ELSE IF s[1] = "%" /\ Len(s) >= 3 /\ IsHex(s[2]) /\ IsHex(s[3])
         THEN <<CharOf(16 * HexVal(s[2]) + HexVal(s[3]))>>
              \o PercentDecode(SubSeq(s, 4, Len(s)))
         ELSE <<s[1]>> \o PercentDecode(SubSeq(s, 2, Len(s)))

----------------------------------------------------------------------------
(* The storage provider, as the endpoints call it *)

\* a faulty variant: the put replaces the bucket's content
PutObject_Truncating(b, key, obj) == [k \in {key} |-> obj]

\* PutObjectCommand: the object under Key is created or replaced
PutObject(b, key, obj) ==
    [k \in (DOMAIN b) \cup {key} |-> IF k = key THEN obj ELSE b[k]]

\* a faulty variant: the delete empties the bucket
DeleteObject_Clears(b, key) == <<>>

\* a faulty variant: the delete is not carried out
DeleteObject_Noop(b, key) == b

\* DeleteObjectCommand: the object under Key is gone; no error when there was none
DeleteObject(b, key) == [k \in (DOMAIN b) \ {key} |-> b[k]]

\* ListObjectsV2Command with no MaxKeys and no ContinuationToken: one page,
\* the first MaxKeys keys in ascending order.  The output has no Contents
\* when there is no key to list.
ListObjectsV2(b) ==
    LET ks == Take(SortKeys(DOMAIN b), MaxKeys)
    IN  [Contents |->
            IF ks = <<>> THEN None
            ELSE Some([i \in 1..Len(ks) |->
                          [Key |-> ks[i], Size |-> b[ks[i]].Size,
                           LastModified |-> b[ks[i]].LastModified]])]

----------------------------------------------------------------------------
(* The endpoints.  Each is a function of the request, the bucket, the clock *)
(* and whether the provider call succeeds; it yields the response and the   *)
(* bucket it leaves.  provider: "ok", "fail", or "none" (no call was made). *)

\* process.env.CLOUDFLARE_R2_PUBLIC_URL
PublicUrl == <<"p">>

\* what r2Client.send(command) does: it resolves, or it rejects with an
\* error of the provider
Sent == "sent"
SendErrors == {"AccessDenied", "NoSuchBucket"}
SendResults == {Sent} \cup SendErrors

\* log: what the handler writes with console.error, if anything
Response(status, body, b, key, provider) ==
    [status |-> status, body |-> body, bucket |-> b, key |-> key, provider |-> provider,
     log |-> None]

\* the response of a catch block, which logs the error it caught
Caught(r, err) == [r EXCEPT !.log = Some(err)]

\* a faulty variant: the timestamp in seconds
UploadKey_Seconds(t, name) == NumToString(t \div 1000) \o <<"-">> \o name

\* `${Date.now()}-${file.name}`
UploadKey(t, name) == NumToString(t) \o <<"-">> \o name

\* a faulty variant: the handler does not return when the field is missing,
\* and file.arrayBuffer() throws
POST_NoFileCheck(form, b, t, send) ==
    IF ~form.isForm \/ form.file = None
    THEN Caught(Response(500, [error |-> "Failed to upload file"], b, None, "none"),
                "TypeError")
    ELSE LET file == form.file[1]
             filename == UploadKey(t, file.name)
             obj == [Body |-> file.body, ContentType |-> file.type,
                     Size |-> Len(file.body), LastModified |-> t]
         IN  IF send = Sent
             THEN Response(200, [success |-> TRUE], PutObject(b, filename, obj),
                           Some(filename), "ok")
             ELSE Caught(Response(500, [error |-> "Failed to upload file"], b, Some(filename), "fail"), send)

\* POST /api/r2/upload.  form.isForm: request.formData() parses the body
\* (it throws on a body that is not form data, and the catch block answers).
\* form.file is formData.get('file'): a File or null.
\* The key of a response is the object key the handler computed, if any.
POST(form, b, t, send) ==
    IF ~form.isForm
    THEN Caught(Response(500, [error |-> "Failed to upload file"], b, None, "none"),
                "TypeError")
    ELSE IF form.file = None
    THEN Response(400, [error |-> "No file provided"], b, None, "none")
    ELSE LET file == form.file[1]
             filename == UploadKey(t, file.name)
             obj == [Body |-> file.body, ContentType |-> file.type,
                     Size |-> Len(file.body), LastModified |-> t]
         IN  IF send = Sent
             THEN Response(200, [success |-> TRUE], PutObject(b, filename, obj),
                           Some(filename), "ok")
             ELSE Caught(Response(500, [error |-> "Failed to upload file"], b, Some(filename), "fail"), send)

\* new URL(request.url).searchParams.get(name), of the URL's query string:
\* the pairs are split at "&", each at its first "=", "+" is a space and
\* %XY escapes are decoded; the first pair named `name` gives the value.
SearchParamsGet(query, name) ==
    LET parts == Split(query, "&")
        Name(p) == LET i == IndexOf(p, "=")
                   IN  PercentDecode(Replace(IF i = 0 THEN p ELSE SubSeq(p, 1, i - 1), "+", " "))
        Value(p) == LET i == IndexOf(p, "=")
                    IN  PercentDecode(Replace(IF i = 0 THEN <<>> ELSE SubSeq(p, i + 1, Len(p)), "+", " "))
        hits == {i \in 1..Len(parts) : parts[i] # <<>> /\ Name(parts[i]) = name}
    IN  IF hits = {} THEN None
        ELSE Some(Value(parts[CHOOSE i \in hits : \A j \in hits : i <= j]))

FileParam == <<"f", "i", "l", "e">>

\* a faulty variant: the handler checks that the object exists before deleting it
DELETE_ExistenceCheck(query, b, send) ==
    LET file == SearchParamsGet(query, FileParam)
    IN  IF file = None \/ file = Some(<<>>)
        THEN Response(400, [error |-> "No file specified"], b, None, "none")
        ELSE IF file[1] \notin DOMAIN b
             THEN Response(404, [error |-> "File not found"], b, file, "none")
             ELSE IF send = Sent
                  THEN Response(200, [success |-> TRUE], DeleteObject(b, file[1]), file, "ok")
                  ELSE Caught(Response(500, [error |-> "Failed to delete file"], b, file, "fail"), send)

\* a faulty variant: the handler does not return when the parameter is
\* missing, and the provider's client rejects the command without a key
DELETE_NoParamCheck(query, b, send) ==
    LET file == SearchParamsGet(query, FileParam)
    IN  IF file = None \/ file = Some(<<>>)
        THEN Caught(Response(500, [error |-> "Failed to delete file"], b, None, "none"),
                    "TypeError")
        ELSE IF send = Sent
             THEN Response(200, [success |-> TRUE], DeleteObject(b, file[1]), file, "ok")
             ELSE Caught(Response(500, [error |-> "Failed to delete file"], b, file, "fail"), send)

\* DELETE /api/r2/delete?<query>
DELETE(query, b, send) ==
    LET file == SearchParamsGet(query, FileParam)
    IN  IF file = None \/ file = Some(<<>>)
        THEN Response(400, [error |-> "No file specified"], b, None, "none")
        ELSE IF send = Sent
             THEN Response(200, [success |-> TRUE], DeleteObject(b, file[1]), file, "ok")
             ELSE Caught(Response(500, [error |-> "Failed to delete file"], b, file, "fail"), send)

\* a faulty variant: the record's name is the object's URL
FileRecords_UrlAsName(contents) ==
    [i \in 1..Len(contents) |->
        [name |-> PublicUrl \o <<"/">> \o contents[i].Key, size |-> contents[i].Size,
         lastModified |-> contents[i].LastModified,
         url |-> PublicUrl \o <<"/">> \o contents[i].Key]]

\* Contents.map(item => ({name, size, lastModified, url}))
FileRecords(contents) ==
    [i \in 1..Len(contents) |->
        [name |-> contents[i].Key, size |-> contents[i].Size,
         lastModified |-> contents[i].LastModified,
         url |-> PublicUrl \o <<"/">> \o contents[i].Key]]

\* const { Contents = [] } = output
ContentsOrEmpty(output) ==
    IF output.Contents = None THEN <<>> ELSE output.Contents[1]

\* a faulty variant: the catch block answers with the error it caught
GET_LeaksDetail(b, send) ==
    IF send = Sent
    THEN Response(200, [files |-> FileRecords(ContentsOrEmpty(ListObjectsV2(b)))],
                  b, None, "ok")
    ELSE Caught(Response(500, [error |-> send], b, None, "fail"), send)

\* a faulty variant: Contents has no default, and Contents.map throws when
\* the output has none
GET_NoDefault(b, send) ==
    IF send = Sent
    THEN IF ListObjectsV2(b).Contents = None
         THEN Caught(Response(500, [error |-> "Failed to list files"], b, None, "ok"),
                     "TypeError")
         ELSE Response(200, [files |-> FileRecords(ListObjectsV2(b).Contents[1])],
                       b, None, "ok")
    ELSE Caught(Response(500, [error |-> "Failed to list files"], b, None, "fail"), send)

\* GET /api/r2/list
GET(b, send) ==
    IF send = Sent
    THEN Response(200, [files |-> FileRecords(ContentsOrEmpty(ListObjectsV2(b)))],
                  b, None, "ok")
    ELSE Caught(Response(500, [error |-> "Failed to list files"], b, None, "fail"), send)

----------------------------------------------------------------------------
(* The inputs *)

ImagePng == <<"image", "png">>
TextPlain == <<"text", "plain">>

\* a File: its name, its MIME type (type, subtype) and its bytes
File(name, type, body) == [name |-> name, type |-> type, body |-> body]

\* two images of the same name and different content, and a text file
Files ==
    { File(<<"a">>, ImagePng, <<1>>),
      File(<<"a">>, ImagePng, <<1, 2>>),
      File(<<"b">>, TextPlain, <<3>>) }

\* the files the UI's user picks or drops: an image, and a text file whose
\* name has a character that separates the parameters of a query string
UiFiles == {File(<<"a">>, ImagePng, <<1>>), File(<<"a", "&", "b">>, TextPlain, <<3>>)}

\* a form without, and with, a `file` field
Form(file) == [isForm |-> TRUE, file |-> file]

\* a body that is not form data
NotForm == [isForm |-> FALSE, file |-> None]

\* the bodies a client posts
Forms == {NotForm, Form(None)} \cup {Form(Some(f)) : f \in Files}

Times == StartTime..MaxTime

\* the keys an upload can produce, and a key no upload produces
Keys == {UploadKey(t, f.name) : t \in Times, f \in Files} \cup {<<"a">>}

\* the `file` parameter a client of the delete endpoint sends: none, an
\* empty one, or a key
ApiParams == {None, Some(<<>>)} \cup {Some(k) : k \in Keys}

\* the query string that carries it
QueryOf(param) ==
    IF param = None THEN <<>> ELSE FileParam \o <<"=">> \o EncodeURIComponent(param[1])

\* what else the client's query string carries: nothing, or a parameter of
\* another name
ExtraParams == {<<>>, <<"b", "=", "a">>}

\* the query string q, after the other parameter
WithExtra(extra, q) ==
    IF extra = <<>> THEN q
    ELSE IF q = <<>> THEN extra
    ELSE extra \o <<"&">> \o q

----------------------------------------------------------------------------
(* A client of the three endpoints, one request at a time.  `last` records  *)
(* its last exchange: the request (op, req), the response (status, body),   *)
(* the object key the handler computed (key), whether the provider was      *)
(* called and failed (provider), the bucket before (pre), the clock (at),   *)
(* whether the key was in `removed` before (again), and the last upload     *)
(* before this exchange that returned 200 (prev).                           *)

Exchange(op, req, r) ==
    [op |-> op, req |-> req, status |-> r.status, body |-> r.body, key |-> r.key,
     provider |-> r.provider, log |-> r.log, pre |-> bucket, at |-> now,
     again |-> r.key # None /\ r.key[1] \in removed,
     prev |-> IF last.op = "upload" /\ last.status = 200
              THEN Some([key |-> last.key[1], name |-> last.req.file[1].name,
                         at |-> last.at])
              ELSE last.prev]

(* `trip` follows the client through List, Upload, List, Delete, List, each   *)
(* answered with 200: the bucket and the List result before the Upload      *)
(* (pre, before), the upload's key and payload size, the name of the one    *)
(* record the second List shows that the first did not, and the result of   *)
(* the last List (after).  Any other request starts over.                   *)

NoTrip ==
    [stage |-> "none", pre |-> <<>>, before |-> <<>>, key |-> <<>>, size |-> 0,
     name |-> <<>>, after |-> <<>>]

NamesOf(records) == {records[i].name : i \in 1..Len(records)}

\* the records of a List result whose names an earlier result did not have
Added(records, before) ==
    SelectSeq(records, LAMBDA rec : rec.name \notin NamesOf(before))

TripAfterUpload(form, r) ==
    IF r.status = 200 /\ trip.stage = "start"
    THEN [trip EXCEPT !.stage = "uploaded", !.key = r.key[1],
                      !.size = Len(form.file[1].body)]
    ELSE NoTrip

TripAfterList(r) ==
    IF r.status # 200 THEN NoTrip
    ELSE LET records == r.body.files
             added == Added(records, trip.before)
         IN  IF trip.stage = "uploaded" /\ Len(added) = 1 /\ added[1].size = trip.size
             THEN [trip EXCEPT !.stage = "listed", !.name = added[1].name]
             ELSE IF trip.stage = "deleted"
             THEN [trip EXCEPT !.stage = "relisted", !.after = records]
             ELSE [NoTrip EXCEPT !.stage = "start", !.pre = bucket, !.before = records]

TripAfterDelete(param, r) ==
    IF r.status = 200 /\ trip.stage = "listed" /\ param = Some(trip.name)
    THEN [trip EXCEPT !.stage = "deleted"]
    ELSE NoTrip

InitApi ==
    /\ trip = NoTrip
    /\ bucket = <<>>
    /\ now = StartTime
    /\ last = [op |-> "none", req |-> <<>>, status |-> 0, body |-> [none |-> TRUE],
               key |-> None, provider |-> "none", log |-> None, pre |-> <<>>, at |-> 0,
               again |-> FALSE, prev |-> None]
    /\ stored = {}
    /\ removed = {}

\* time passes
Tick ==
    /\ now < MaxTime
    /\ now' = now + 1
    /\ UNCHANGED <<bucket, apiVars, uiVars>>

ApiUpload ==
    \E form \in Forms, send \in SendResults :
        \E r \in {POST(form, bucket, now, send)} :
            /\ Cardinality(DOMAIN r.bucket) <= MaxObjects
            /\ bucket' = r.bucket
            /\ last' = Exchange("upload", form, r)
            /\ trip' = TripAfterUpload(form, r)
            /\ stored' = IF r.status = 200 THEN stored \cup {r.key[1]} ELSE stored
            /\ removed' = IF r.status = 200 THEN removed \ {r.key[1]} ELSE removed
            /\ UNCHANGED <<now, uiVars>>

ApiDelete ==
    \E param \in ApiParams, extra \in ExtraParams, send \in SendResults :
        \E r \in {DELETE(WithExtra(extra, QueryOf(param)), bucket, send)} :
            /\ bucket' = r.bucket
            /\ last' = Exchange("delete", param, r)
            /\ trip' = TripAfterDelete(param, r)
            /\ stored' = IF r.key # None THEN stored \ {r.key[1]} ELSE stored
            /\ removed' = IF r.status = 200 THEN removed \cup {r.key[1]} ELSE removed
            /\ UNCHANGED <<now, uiVars>>

ApiList ==
    \E send \in SendResults :
        \E r \in {GET(bucket, send)} :
            /\ bucket' = r.bucket
            /\ last' = Exchange("list", <<>>, r)
            /\ trip' = TripAfterList(r)
            /\ UNCHANGED <<now, stored, removed, uiVars>>

----------------------------------------------------------------------------
(* R2FileManager.  A fetch() call in flight is a record: its kind, the      *)
(* handler that awaits it (parent: fetchFiles makes a list call for the     *)
(* mount effect and the refresh button, "none", or for handleUpload or      *)
(* handleDelete, which await it), where it stands (st: "sent", "replied" once the endpoint  *)
(* has answered), what                                                      *)
(* it carries (the file of an upload, the fileName of a delete) and what    *)
(* the handler reads of the response (response.status, data.files), and     *)
(* whether the endpoint's provider call was made and failed (provider) and  *)
(* the key the delete endpoint read from the request (key).  The            *)
(* handler awaiting the call resumes when the call is received.             *)
(* Both tabs' contents are within the user's reach at any time: switching   *)
(* tabs changes none of the component's state.                              *)

NoError == "null"

NoFile == File(<<>>, <<>>, <<>>)

ListCall(parent) ==
    [kind |-> "list", parent |-> parent, st |-> "sent", file |-> NoFile,
     fileName |-> <<>>, status |-> 0, files |-> <<>>, provider |-> "none",
     key |-> None]

UploadCall(file) ==
    [kind |-> "upload", parent |-> "upload", st |-> "sent", file |-> file,
     fileName |-> <<>>, status |-> 0, files |-> <<>>, provider |-> "none",
     key |-> None]

DeleteCall(fileName) ==
    [kind |-> "delete", parent |-> "delete", st |-> "sent", file |-> NoFile,
     fileName |-> fileName, status |-> 0, files |-> <<>>, provider |-> "none",
     key |-> None]

\* the bag b with one more, and with one less, copy of c
Plus(b, c) == b (+) SetToBag({c})
Minus(b, c) == b (-) SetToBag({c})

\* the call, answered by response r
Reply(c, r) ==
    [c EXCEPT !.st = "replied", !.status = r.status, !.provider = r.provider,
              !.key = IF c.kind = "delete" THEN r.key ELSE None,
              !.files = IF c.kind = "list" /\ r.status = 200 THEN r.body.files ELSE <<>>]

\* response.ok
ResponseOk(c) == c.status \in 200..299

InFlight(kind) == {c \in BagToSet(calls) : c.kind = kind}
Pending(kind) == {c \in InFlight(kind) : c.st = "sent"}
NumCalls == BagCardinality(calls)

InitUi ==
    /\ files = <<>>
    /\ isLoading = TRUE
    /\ isUploading = FALSE
    /\ isDeleting = FALSE
    /\ error = NoError
    /\ mounted = FALSE
    /\ calls = EmptyBag

\* fetchFiles, to its await: setIsLoading(true); fetch('/api/r2/list')
FetchFiles(parent, others) ==
    /\ isLoading' = TRUE
    /\ calls' = Plus(others, ListCall(parent))

\* React.useEffect(() => { fetchFiles() }, [fetchFiles])
Mount ==
    /\ ~mounted
    /\ mounted' = TRUE
    /\ FetchFiles("none", calls)
    /\ UNCHANGED <<files, isUploading, isDeleting, error, bucket, now, apiVars>>

\* <Button onClick={fetchFiles} disabled={isLoading}>
RefreshEnabled == ~isLoading

ClickRefresh ==
    /\ mounted
    /\ RefreshEnabled
    /\ NumCalls < MaxCalls
    /\ FetchFiles("none", calls)
    /\ UNCHANGED <<files, isUploading, isDeleting, error, mounted, bucket, now, apiVars>>

\* handleUpload, to its await: setIsUploading(true); setError(null); fetch(POST)
HandleUpload(file) ==
    /\ isUploading' = TRUE
    /\ error' = NoError
    /\ calls' = Plus(calls, UploadCall(file))
    /\ UNCHANGED <<files, isLoading, isDeleting, mounted, bucket, now, apiVars>>

\* UploadBox renders the file input only while not uploading
BrowseRendered == ~isUploading

\* the input's onChange: any file the user picks
BrowseFile ==
    \E file \in UiFiles :
        /\ mounted
        /\ BrowseRendered
        /\ NumCalls < MaxCalls
        /\ HandleUpload(file)

\* file.type.startsWith('image/')
IsImage(type) == type[1] = "image"

\* handleDrop, attached to the box whether or not an upload is in flight
DropAccepted(file) == IsImage(file.type)

DropFile ==
    \E file \in UiFiles :
        /\ mounted
        /\ DropAccepted(file)
        /\ NumCalls < MaxCalls
        /\ HandleUpload(file)

\* <p>No images uploaded yet</p> is rendered when not loading and there are
\* no files
EmptyTextRendered == ~isLoading /\ Len(files) = 0

\* ImageGrid is rendered when not loading and there are files
GridRendered == ~isLoading /\ Len(files) # 0

\* a faulty variant: the delete buttons are never disabled
DeleteEnabled_Always == TRUE

\* <Button onClick={() => onDelete(file.name)} disabled={isDeleting}>
DeleteEnabled == ~isDeleting

\* handleDelete, to its await: setIsDeleting(true); setError(null); fetch(DELETE)
HandleDelete(fileName) ==
    /\ isDeleting' = TRUE
    /\ error' = NoError
    /\ calls' = Plus(calls, DeleteCall(fileName))
    /\ UNCHANGED <<files, isLoading, isUploading, mounted, bucket, now, apiVars>>

ClickDelete ==
    \E i \in 1..Len(files) :
        /\ mounted
        /\ GridRendered
        /\ DeleteEnabled
        /\ NumCalls < MaxCalls
        /\ HandleDelete(files[i].name)

RECURSIVE EncodeSpaces(_)
EncodeSpaces(s) ==
    IF s = <<>> THEN <<>>
    ELSE (IF s[1] = " " THEN <<"%", "2", "0">> ELSE <<s[1]>>)
         \o EncodeSpaces(SubSeq(s, 2, Len(s)))

\* The query string of the request fetch(`/api/r2/delete?file=${fileName}`)
\* makes: the text after "?", up to a "#" (the fragment is not sent), its
\* spaces percent-encoded.
DeleteQuery(fileName) ==
    LET text == FileParam \o <<"=">> \o fileName
        i == IndexOf(text, "#")
    IN  EncodeSpaces(IF i = 0 THEN text ELSE SubSeq(text, 1, i - 1))

(* The endpoints answer the UI's calls *)

ServeList ==
    \E c \in Pending("list"), send \in SendResults :
        \E r \in {GET(bucket, send)} :
            /\ calls' = Plus(Minus(calls, c), Reply(c, r))
            /\ bucket' = r.bucket
            /\ UNCHANGED <<files, isLoading, isUploading, isDeleting, error, mounted,
                           now, apiVars>>

ServeUpload ==
    \E c \in Pending("upload"), send \in SendResults :
        \E r \in {POST(Form(Some(c.file)), bucket, now, send)} :
            /\ Cardinality(DOMAIN r.bucket) <= MaxObjects
            /\ calls' = Plus(Minus(calls, c), Reply(c, r))
            /\ bucket' = r.bucket
            /\ UNCHANGED <<files, isLoading, isUploading, isDeleting, error, mounted,
                           now, apiVars>>

ServeDelete ==
    \E c \in Pending("delete"), send \in SendResults :
        \E r \in {DELETE(DeleteQuery(c.fileName), bucket, send)} :
            /\ calls' = Plus(Minus(calls, c), Reply(c, r))
            /\ bucket' = r.bucket
            /\ UNCHANGED <<files, isLoading, isUploading, isDeleting, error, mounted,
                           now, apiVars>>

(* The handlers resume: the awaited fetch() resolves with the endpoint's    *)
(* response, or the request or the response is lost and fetch() or          *)
(* response.json() rejects.                                                 *)

Outcomes == {"response", "reject"}

\* the call can end this way now
CanEnd(c, outcome) == outcome = "response" => c.st = "replied"

\* a faulty variant: the handler does not throw on a response that is not ok
Succeeds_IgnoresStatus(c, outcome) == outcome = "response"

\* the try block runs to its end: the response came, and response.ok
Succeeds(c, outcome) == outcome = "response" /\ ResponseOk(c)

\* a faulty variant: fetchFiles' catch block empties the list
RecvList_ClearsFilesOnFailure ==
    \E c \in InFlight("list"), outcome \in Outcomes :
        /\ CanEnd(c, outcome)
        /\ IF Succeeds(c, outcome)
           THEN files' = c.files /\ error' = NoError
           ELSE files' = <<>> /\ error' = "Failed to fetch files"
        /\ isLoading' = FALSE
        /\ isUploading' = IF c.parent = "upload" THEN FALSE ELSE isUploading
        /\ isDeleting' = IF c.parent = "delete" THEN FALSE ELSE isDeleting
        /\ calls' = Minus(calls, c)
        /\ UNCHANGED <<mounted, bucket, now, apiVars>>

\* a faulty variant: fetchFiles' catch block does not set the error
RecvList_SilentFailure ==
    \E c \in InFlight("list"), outcome \in Outcomes :
        /\ CanEnd(c, outcome)
        /\ IF Succeeds(c, outcome)
           THEN files' = c.files /\ error' = NoError
           ELSE files' = files /\ error' = error
        /\ isLoading' = FALSE
        /\ isUploading' = IF c.parent = "upload" THEN FALSE ELSE isUploading
        /\ isDeleting' = IF c.parent = "delete" THEN FALSE ELSE isDeleting
        /\ calls' = Minus(calls, c)
        /\ UNCHANGED <<mounted, bucket, now, apiVars>>

\* fetchFiles, from its await to its end, and then the handler that awaited it
RecvList ==
    \E c \in InFlight("list"), outcome \in Outcomes :
        /\ CanEnd(c, outcome)
        /\ IF Succeeds(c, outcome)
           THEN files' = c.files /\ error' = NoError
           ELSE files' = files /\ error' = "Failed to fetch files"
        /\ isLoading' = FALSE
        /\ isUploading' = IF c.parent = "upload" THEN FALSE ELSE isUploading
        /\ isDeleting' = IF c.parent = "delete" THEN FALSE ELSE isDeleting
        /\ calls' = Minus(calls, c)
        /\ UNCHANGED <<mounted, bucket, now, apiVars>>

\* a faulty variant: handleUpload calls fetchFiles without awaiting it
RecvUpload_NoAwait ==
    \E c \in InFlight("upload"), outcome \in Outcomes :
        /\ CanEnd(c, outcome)
        /\ IF Succeeds(c, outcome)
           THEN /\ FetchFiles("none", Minus(calls, c))
                /\ UNCHANGED error
           ELSE /\ error' = "Failed to upload file"
                /\ calls' = Minus(calls, c)
                /\ UNCHANGED isLoading
        /\ isUploading' = FALSE
        /\ UNCHANGED <<files, isDeleting, mounted, bucket, now, apiVars>>

\* handleUpload, from its first await: on success it calls fetchFiles and
\* awaits it; on failure it sets the error and clears the flag
RecvUpload ==
    \E c \in InFlight("upload"), outcome \in Outcomes :
        /\ CanEnd(c, outcome)
        /\ IF Succeeds(c, outcome)
           THEN /\ FetchFiles("upload", Minus(calls, c))
                /\ UNCHANGED <<isUploading, error>>
           ELSE /\ error' = "Failed to upload file"
                /\ isUploading' = FALSE
                /\ calls' = Minus(calls, c)
                /\ UNCHANGED isLoading
        /\ UNCHANGED <<files, isDeleting, mounted, bucket, now, apiVars>>

\* handleDelete, from its first await
RecvDelete ==
    \E c \in InFlight("delete"), outcome \in Outcomes :
        /\ CanEnd(c, outcome)
        /\ IF Succeeds(c, outcome)
           THEN /\ FetchFiles("delete", Minus(calls, c))
                /\ UNCHANGED <<isDeleting, error>>
           ELSE /\ error' = "Failed to delete file"
                /\ isDeleting' = FALSE
                /\ calls' = Minus(calls, c)
                /\ UNCHANGED isLoading
        /\ UNCHANGED <<files, isUploading, mounted, bucket, now, apiVars>>

----------------------------------------------------------------------------
(* Specifications *)

Init == InitApi /\ InitUi

NextApi == Tick \/ ApiUpload \/ ApiDelete \/ ApiList

\* the endpoints, driven by a client that makes one request at a time
SpecApi == Init /\ [][NextApi]_vars

Next ==
    \/ Tick
    \/ Mount
    \/ ClickRefresh
    \/ BrowseFile
    \/ DropFile
    \/ ClickDelete
    \/ ServeList
    \/ ServeUpload
    \/ ServeDelete
    \/ RecvList
    \/ RecvUpload
    \/ RecvDelete

\* one R2FileManager, the only client of the endpoints
Spec == Init /\ [][Next]_vars

----------------------------------------------------------------------------
(* The endpoints' contract (checked under SpecApi) *)

\* the names of the records a 200 List returned
ListedNames == {last.body.files[i].name : i \in 1..Len(last.body.files)}

UploadOk == last.op = "upload" /\ last.status = 200
DeleteOk == last.op = "delete" /\ last.status = 200
ListOk == last.op = "list" /\ last.status = 200

\* a 200 Upload stored its file under <decimal milliseconds>-<file name>
StoredUnderTimestampName ==
    UploadOk =>
        LET k == last.key[1]
            i == IndexOf(k, "-")
            f == last.req.file[1]
        IN  /\ i > 1
            /\ SubSeq(k, 1, i - 1) = NumToString(last.at)
            /\ SubSeq(k, i + 1, Len(k)) = f.name
            /\ k \in DOMAIN bucket
            /\ bucket[k].Body = f.body
            /\ bucket[k].ContentType = f.type

\* C1 (as claimed): a 200 Upload stores the file under
\* <millisecond timestamp>-<original filename>, and every List that runs after
\* it, with no Delete of that key in between, returns a record of that name.
C1_UploadThenListed ==
    /\ StoredUnderTimestampName
    /\ ListOk => stored \subseteq ListedNames

\* C1 (amended): the same, for every List that runs while the bucket holds at
\* most one page (MaxKeys) of objects.
C1_UploadThenListedWithinOnePage ==
    /\ StoredUnderTimestampName
    /\ ListOk /\ Cardinality(DOMAIN last.pre) <= MaxKeys => stored \subseteq ListedNames

\* an upload, a delete of another key, then a list that shows the upload
C1_Witness ==
    /\ ListOk
    /\ last.prev # None
    /\ last.prev[1].key \in stored \cap ListedNames
    /\ removed # {}

\* C2: after a 200 Delete for key k, every List that runs afterwards, with no
\* Upload producing k in between, returns no record whose name is k.
C2_DeletedNotListed == ListOk => removed \cap ListedNames = {}

\* an upload of k, a 200 delete of k, then a list that shows other records
C2_Witness ==
    /\ ListOk
    /\ last.prev # None
    /\ last.prev[1].key \in removed
    /\ ListedNames # {}

\* C3 (as claimed): after a 200 Upload every object that was in the bucket is
\* still there with the same content, and there is exactly one object more.
C3_UploadAddsExactlyOne ==
    UploadOk =>
        /\ \A k \in DOMAIN last.pre : k \in DOMAIN bucket /\ bucket[k] = last.pre[k]
        /\ Cardinality(DOMAIN bucket) = Cardinality(DOMAIN last.pre) + 1

\* C3 (amended): after a 200 Upload the bucket holds the keys it held and the
\* upload's key, every object under another key is unchanged, the object
\* under the upload's key is the uploaded file, and there is exactly one
\* object more unless the upload's key was there already.
C3_UploadWritesOnlyItsKey ==
    UploadOk =>
        LET key == last.key[1]
        IN  /\ DOMAIN bucket = (DOMAIN last.pre) \cup {key}
            /\ \A k \in (DOMAIN last.pre) \ {key} : bucket[k] = last.pre[k]
            /\ bucket[key].Body = last.req.file[1].body
            /\ key \notin DOMAIN last.pre =>
                   Cardinality(DOMAIN bucket) = Cardinality(DOMAIN last.pre) + 1

\* an upload into a bucket that holds objects, under a new key
C3_Witness ==
    /\ UploadOk
    /\ last.pre # <<>>
    /\ last.key[1] \notin DOMAIN last.pre

\* C4: two uploads get the same key only if they carry the same filename in
\* the same millisecond; if they differ in either, the keys differ and the
\* later upload leaves the earlier one's object as it was.
C4_SameKeyOnlySameNameSameMs ==
    last.op = "upload" /\ last.key # None /\ last.prev # None =>
        LET p == last.prev[1]
            name == last.req.file[1].name
        IN  /\ last.key[1] = p.key => name = p.name /\ last.at = p.at
            /\ name # p.name \/ last.at # p.at =>
                   /\ last.key[1] # p.key
                   /\ UploadOk /\ p.key \in DOMAIN last.pre =>
                          p.key \in DOMAIN bucket /\ bucket[p.key] = last.pre[p.key]

\* two uploads of the same filename in different milliseconds, the first
\* one's object still stored
C4_Witness ==
    /\ UploadOk
    /\ last.prev # None
    /\ last.prev[1].name = last.req.file[1].name
    /\ last.prev[1].at # last.at
    /\ last.prev[1].key \in DOMAIN bucket

\* C5: a Delete for a non-empty key, the provider not failing, returns
\* {success: true} whether or not the key is in the bucket, leaves the other
\* objects alone, and a repeated Delete of the key leaves the bucket as the
\* first one left it.
C5_DeleteIdempotent ==
    \A k \in Keys :
        last.op = "delete" /\ last.req = Some(k) /\ last.provider # "fail" =>
            /\ last.status = 200
            /\ last.body = [success |-> TRUE]
            /\ bucket = [j \in (DOMAIN last.pre) \ {k} |-> last.pre[j]]
            /\ k \notin DOMAIN last.pre \/ last.again => bucket = last.pre

\* a repeated delete of a key, on a bucket that holds objects
C5_Witness ==
    /\ DeleteOk
    /\ last.again
    /\ last.pre # <<>>

----------------------------------------------------------------------------
(* R2FileManager's handlers (checked under Spec) *)

\* how many calls of a kind, made for a handler, are in bag b
NumIn(b, kind, parent) ==
    BagCardinality([c \in {x \in BagToSet(b) : x.kind = kind /\ x.parent = parent}
                        |-> b[c]])

\* in this step a call of the kind, made for the handler, left the bag:
\* the handler awaiting it resumed
Ends(kind, parent) == NumIn(calls', kind, parent) < NumIn(calls, kind, parent)

\* in this step fetchFiles was called for the handler
ListTriggered(parent) ==
    /\ NumIn(calls', "list", parent) = NumIn(calls, "list", parent) + 1
    /\ isLoading'

\* the call that left the bag in this step had been answered with 200
EndedAnswered200(kind) ==
    \E c \in BagToSet(calls) :
        /\ c.kind = kind
        /\ CopiesIn(c, calls') < CopiesIn(c, calls)
        /\ c.st = "replied"
        /\ c.status = 200

\* C6 (as claimed): every upload ends by triggering a List call, whether its
\* request succeeded or failed, and the uploading flag is cleared only after
\* that List.
C6_UploadAlwaysRelists ==
    [][/\ Ends("upload", "upload") => ListTriggered("upload")
       /\ isUploading /\ ~isUploading' => Ends("list", "upload")]_vars

\* C6 (amended): an upload whose request succeeded triggers a List call and
\* leaves the uploading flag and the error as they are; the flag is cleared
\* when that List call has completed.  An upload whose request failed
\* triggers no List call: it sets the error to 'Failed to upload file' and
\* clears the flag.  A request that was not answered with 200 has failed.
C6_UploadRelistsOnSuccess ==
    [][/\ Ends("upload", "upload") =>
              \/ /\ ListTriggered("upload")
                 /\ EndedAnswered200("upload")
                 /\ UNCHANGED <<isUploading, error, files>>
              \/ /\ NumIn(calls', "list", "upload") = NumIn(calls, "list", "upload")
                 /\ BagCardinality(calls') = BagCardinality(calls) - 1
                 /\ ~isUploading'
                 /\ error' = "Failed to upload file"
                 /\ UNCHANGED <<isLoading, files>>
       /\ isUploading /\ ~isUploading' =>
              \/ Ends("list", "upload")
              \/ Ends("upload", "upload") /\ ~ListTriggered("upload")]_vars

\* an upload has succeeded, its List call has been answered with the stored
\* object, and the flag is still set
C6_Witness ==
    /\ isUploading
    /\ \E c \in InFlight("list") :
           c.parent = "upload" /\ c.st = "replied" /\ c.status = 200 /\ Len(c.files) > 0

\* C7 (as claimed): every delete re-triggers a List call on its completion
\* and then clears the delete lock, for every outcome of the delete request.
C7_DeleteAlwaysRelists ==
    [][/\ Ends("delete", "delete") => ListTriggered("delete")
       /\ isDeleting /\ ~isDeleting' => Ends("list", "delete")]_vars

\* C7 (amended): a delete whose request succeeded triggers a List call and
\* keeps the lock, which is cleared when that List call has completed.  A
\* delete whose request failed triggers no List call: it sets the error to
\* 'Failed to delete file' and clears the lock.
C7_DeleteRelistsOnSuccess ==
    [][/\ Ends("delete", "delete") =>
              \/ /\ ListTriggered("delete")
                 /\ EndedAnswered200("delete")
                 /\ UNCHANGED <<isDeleting, error, files>>
              \/ /\ NumIn(calls', "list", "delete") = NumIn(calls, "list", "delete")
                 /\ BagCardinality(calls') = BagCardinality(calls) - 1
                 /\ ~isDeleting'
                 /\ error' = "Failed to delete file"
                 /\ UNCHANGED <<isLoading, files>>
       /\ isDeleting /\ ~isDeleting' =>
              \/ Ends("list", "delete")
              \/ Ends("delete", "delete") /\ ~ListTriggered("delete")]_vars

\* a delete has succeeded, its List call has been answered, without the
\* deleted record, and the lock is still set
C7_Witness ==
    /\ isDeleting
    /\ Len(files) > 0
    /\ \E c \in InFlight("list") :
           /\ c.parent = "delete" /\ c.st = "replied" /\ c.status = 200
           /\ \A i \in 1..Len(c.files) : c.files[i].name # files[1].name

\* the delete operations in progress: DELETE requests, and the List calls
\* that follow them
DeleteOperations == NumIn(calls, "delete", "delete") + NumIn(calls, "list", "delete")

\* C8: at most one delete operation is in progress at any time, and the
\* lock is held from its start until its follow-up refresh has completed.
C8_OneDeleteAtATime ==
    /\ DeleteOperations <= 1
    /\ DeleteOperations = 1 => isDeleting

\* the grid is shown, with its delete buttons, while a delete's refresh is
\* still in flight
C8_Witness ==
    /\ GridRendered
    /\ isDeleting
    /\ NumIn(calls, "list", "delete") = 1

\* C9: at most one upload request is in flight at any time.
C9_OneUploadAtATime == NumIn(calls, "upload", "upload") <= 1

\* C10: whenever a List call is in flight, the loading flag is set.
C10_LoadingWhileListInFlight == InFlight("list") # {} => isLoading

----------------------------------------------------------------------------
(* The error banner *)

Parents == {"none", "upload", "delete"}

\* in this step a call of the kind, made for the handler, joined the bag
Starts(kind, parent) == NumIn(calls', kind, parent) > NumIn(calls, kind, parent)

\* in this step a fetchFiles call ended
ListEnds == \E p \in Parents : Ends("list", p)

\* in this step handleUpload, or handleDelete, ended in its catch block
UploadFails == Ends("upload", "upload") /\ ~Starts("list", "upload")
DeleteFails == Ends("delete", "delete") /\ ~Starts("list", "delete")

\* in this step an operation completed
Completes == ListEnds \/ UploadFails \/ DeleteFails

\* an operation that fails sets the banner to its own message, and a
\* fetchFiles that ends sets it to its message or clears it, and clears it
\* only if its call was answered with 200
FailureSetsOwnMessage ==
    /\ ListEnds /\ ~EndedAnswered200("list") => error' = "Failed to fetch files"
    /\ ListEnds => error' \in {NoError, "Failed to fetch files"}
    /\ UploadFails => error' = "Failed to upload file"
    /\ DeleteFails => error' = "Failed to delete file"

\* C11 (as claimed): a failed fetch, upload or delete sets the banner to its
\* own message, and the banner changes only in a step in which an operation
\* completes, never in a step that starts one.
C11_BannerUntilCompletion ==
    [][/\ FailureSetsOwnMessage
       /\ error' # error => Completes]_vars

\* C11 (amended): a failed fetch, upload or delete sets the banner to its own
\* message; the banner changes only when an operation completes or when an
\* upload or a delete is started, which clears it; starting a fetch (on
\* mount, by the refresh button, after an upload or a delete) leaves it.
C11_BannerUntilCompletionOrNewAction ==
    [][/\ FailureSetsOwnMessage
       /\ error' # error =>
              \/ Completes
              \/ Starts("upload", "upload") \/ Starts("delete", "delete")
       /\ Starts("upload", "upload") \/ Starts("delete", "delete") => error' = NoError
       /\ (\E p \in Parents : Starts("list", p)) => error' = error]_vars

\* a delete has failed, and its banner is shown while a refresh is in flight
C11_Witness ==
    /\ error = "Failed to delete file"
    /\ Pending("list") # {}

----------------------------------------------------------------------------
(* The in-flight flags *)

\* the operations in progress that set each flag: fetchFiles calls; uploads
\* and deletes, each with the fetchFiles call that follows it
ListOperations == NumIn(calls, "list", "none") + NumIn(calls, "list", "upload")
                      + NumIn(calls, "list", "delete")
UploadOperations == NumIn(calls, "upload", "upload") + NumIn(calls, "list", "upload")

\* in this step handleUpload, or handleDelete, ended
UploadEnds == Ends("list", "upload") \/ UploadFails
DeleteEnds == Ends("list", "delete") \/ DeleteFails

\* a flag is cleared only in a step in which an operation that set it ends
ClearedOnlyByCompletion ==
    [][/\ isLoading /\ ~isLoading' => ListEnds
       /\ isUploading /\ ~isUploading' => UploadEnds
       /\ isDeleting /\ ~isDeleting' => DeleteEnds]_vars

\* C12: a flag is cleared only by the completion of the operation that set
\* it, so that it stays set for as long as a network call of an operation
\* that set it has not returned: a flag that is set stays set in every step
\* that leaves such an operation in progress.
C12_FlagHeldUntilOwnCompletion ==
    [][/\ isLoading /\ ListOperations' > 0 => isLoading'
       /\ isUploading /\ UploadOperations' > 0 => isUploading'
       /\ isDeleting /\ DeleteOperations' > 0 => isDeleting']_vars

\* the user's actions
UserAction == ClickRefresh \/ BrowseFile \/ DropFile \/ ClickDelete

AllClear == ~isLoading /\ ~isUploading /\ ~isDeleting

\* the mount effect runs, and every network call returns: fetch() resolves
\* or rejects
CallsReturn ==
    /\ WF_vars(Mount)
    /\ WF_vars(RecvList)
    /\ WF_vars(RecvUpload)
    /\ WF_vars(RecvDelete)

SpecReturning == Init /\ [][Next]_vars /\ CallsReturn

\* if from some point on the user acts no more, the three flags are cleared
\* from some point on
EventuallyClear == <>[][~UserAction]_vars => <>[]AllClear

----------------------------------------------------------------------------
(* The endpoints' error paths (checked under SpecApi) *)

\* the exchange made no provider call and left the bucket as it was
NoStorageMutation == last.provider = "none" /\ bucket = last.pre

C14_DeleteWithoutFile ==
    last.op = "delete" /\ last.req = None =>
        /\ last.status = 400
        /\ last.body = [error |-> "No file specified"]
        /\ NoStorageMutation

\* a delete without the parameter, on a bucket that holds objects
C14_Witness ==
    /\ last.op = "delete"
    /\ last.req = None
    /\ last.pre # <<>>

\* each endpoint's message for a failure of its provider call
FailureMessage(op) ==
    CASE op = "list" -> "Failed to list files"
      [] op = "upload" -> "Failed to upload file"
      [] op = "delete" -> "Failed to delete file"

\* the request carried what its endpoint requires: nothing, a form with a
\* file, a non-empty `file` parameter
ValidInput ==
    CASE last.op = "list" -> TRUE
      [] last.op = "upload" -> last.req.isForm /\ last.req.file # None
      [] last.op = "delete" -> last.req \notin {None, Some(<<>>)}
      [] OTHER -> FALSE

\* C15: when the provider call of an endpoint fails, whatever the error, the
\* response is 500 with the endpoint's fixed message (the error goes to the
\* log only) and the bucket is as it was; a request with valid input gets
\* 200 or 500, and 500 only when the provider call failed.
C15_ProviderFailureIs500 ==
    /\ last.provider = "fail" =>
           /\ last.status = 500
           /\ last.body = [error |-> FailureMessage(last.op)]
           /\ last.log # None /\ last.log[1] \in SendErrors
           /\ bucket = last.pre
    /\ ValidInput =>
           /\ last.status \in {200, 500}
           /\ last.status = 500 <=> last.provider = "fail"

\* a delete with a key, on a bucket that holds objects, failed by the provider
C15_Witness ==
    /\ last.op = "delete"
    /\ ValidInput
    /\ last.provider = "fail"
    /\ last.log = Some("NoSuchBucket")
    /\ last.pre # <<>>

----------------------------------------------------------------------------
(* The round trip (checked under SpecApi) *)

\* C16: after a 200 List, a 200 Upload, a 200 List that shows one added
\* record, of the payload's size, and a 200 Delete of that record's name,
\* the bucket is what it was before the Upload, the record's name is the
\* upload's key, and the next 200 List returns what the first one returned.
C16_UploadDeleteRoundTrip ==
    /\ trip.stage = "listed" => trip.name = trip.key
    /\ trip.stage \in {"deleted", "relisted"} => bucket = trip.pre
    /\ trip.stage = "relisted" => trip.after = trip.before

\* the round trip is complete, on a bucket that held an object before it
C16_Witness ==
    /\ trip.stage = "relisted"
    /\ trip.pre # <<>>
    /\ trip.after # <<>>

\* the round trip of the stated scenario is complete: from the empty bucket
\* to {files: []}
C16_WitnessEmpty ==
    /\ trip.stage = "relisted"
    /\ trip.pre = <<>>
    /\ trip.after = <<>>

----------------------------------------------------------------------------
(* The empty bucket (checked under Spec) *)

\* the List calls the endpoint answered in this step
AnsweredNow ==
    {c \in BagToSet(calls') :
        c.kind = "list" /\ c.st = "replied" /\ CopiesIn(c, calls') > CopiesIn(c, calls)}

\* in this step fetchFiles ended, its call answered with 200 and no files
EndedAnsweredEmpty ==
    \E c \in BagToSet(calls) :
        /\ c.kind = "list"
        /\ CopiesIn(c, calls') < CopiesIn(c, calls)
        /\ c.st = "replied" /\ c.status = 200 /\ c.files = <<>>

\* C17: the list endpoint answers a List on the empty bucket with 200 and
\* {files: []}, unless the provider call fails, and answers a List on no
\* other bucket so; when fetchFiles has received that answer (it sets no
\* error), the UI renders "No images uploaded yet".
C17_EmptyBucketEmptyText ==
    [][/\ \A c \in AnsweredNow :
              /\ bucket = <<>> /\ c.provider # "fail" => c.status = 200 /\ c.files = <<>>
              /\ c.status = 200 /\ c.files = <<>> => bucket = <<>>
       /\ EndedAnsweredEmpty /\ error' = NoError => EmptyTextRendered']_vars

\* nothing is in flight and no error is set, so that the operation that
\* completed last is a fetchFiles that succeeded; the bucket is empty and
\* the text is rendered
C17_Witness ==
    /\ mounted
    /\ calls = EmptyBag
    /\ error = NoError
    /\ bucket = <<>>
    /\ EmptyTextRendered

----------------------------------------------------------------------------
(* What the UI displays (checked under Spec) *)

\* no request of the UI is in flight
Quiescent == mounted /\ calls = EmptyBag

\* C18: whenever the UI is quiescent and shows no error, the names of the
\* records it displays are the keys of the bucket.
C18_DisplayedIsStored ==
    Quiescent /\ error = NoError => NamesOf(files) = DOMAIN bucket

\* C19: the key the delete endpoint reads from the request that the UI's
\* delete action makes for a record is that record's name.
C19_DeleteTargetsRecord ==
    \A c \in InFlight("delete") : c.st = "replied" => c.key = Some(c.fileName)

----------------------------------------------------------------------------
(* A List call that fails (checked under Spec) *)

\* in this step fetchFiles ended, and its call had got no answer (fetch
\* rejected) or an answer that is not ok
EndedFailedList ==
    \E c \in BagToSet(calls) :
        /\ ListEnds
        /\ c.kind = "list"
        /\ CopiesIn(c, calls') < CopiesIn(c, calls)
        /\ c.st = "sent" \/ ~ResponseOk(c)

\* C20: a fetchFiles whose List call fails sets the error to 'Failed to fetch
\* files', clears the loading flag and leaves the file list, the bucket and
\* the calls of other operations as they are; it leaves the uploading and
\* the deleting flag too: the one of the two that changes in the step is
\* cleared by the handler that awaited this fetchFiles, in its finally
\* block.  Whenever `error` is set to that message, the file list is left.
C20_FailedListKeepsRecords ==
    [][/\ EndedFailedList =>
              /\ error' = "Failed to fetch files"
              /\ ~isLoading'
       /\ ListEnds /\ error' = "Failed to fetch files" =>
              /\ files' = files
              /\ ~isLoading'
              /\ isUploading' # isUploading => Ends("list", "upload") /\ ~isUploading'
              /\ isDeleting' # isDeleting => Ends("list", "delete") /\ ~isDeleting'
              /\ UNCHANGED <<bucket, mounted>>
              /\ BagCardinality(calls') = BagCardinality(calls) - 1]_vars

\* records are displayed, an upload is in flight, and a refresh has failed
C20_Witness ==
    /\ error = "Failed to fetch files"
    /\ Len(files) > 0
    /\ ~isLoading
    /\ isUploading
    /\ InFlight("upload") # {}

====
